---- MODULE Spec2Model ----
(***************************************************************************)
(* varnishtest "logexpect" (bin/varnishtest/vtc_logexp.c).                 *)
(*                                                                         *)
(* A logexpect engine (struct logexp) holds an ordered list of expect      *)
(* patterns (struct logexp_test).  The controlling thread configures it    *)
(* through the arguments of the logexpect directive (cmd_logexpect);       *)
(* -start spawns a background thread (logexp_thread) that feeds log        *)
(* records to logexp_dispatch until the pattern list is exhausted or an    *)
(* expectation fails; -wait joins it (logexp_wait).                        *)
(***************************************************************************)
EXTENDS Integers, Sequences, FiniteSets, TLC

VARIABLES
    logexps,    \* the registry: names of the engines, in creation order
    le,         \* name -> struct logexp (domain: the engines that exist)
    cpc,        \* position of the controlling thread
    carg,       \* the engine the controlling thread joins, or the one whose
                \* argument raised the fatal error (0: none)
    cerr,       \* the fatal error raised in the controlling thread ("" if none)
    vtc_stop    \* the harness is shutting down

vars == <<logexps, le, cpc, carg, cerr, vtc_stop>>

----------------------------------------------------------------------------
(* Bounds of the model *)

\* longest pattern list a spec compiles
MaxTests == 2
\* largest numeric skip_max of an expect line
MaxSkip == 1
\* records classified in one run
MaxRecs == 3

----------------------------------------------------------------------------
(* Program constants *)

LE_ANY == -1
LE_LAST == -2

\* no pattern / no pointer
NULL == 0

\* the batch-delimiter pseudo tag
SLT__Batch == 255

\* VRE_exec()'s "no match" result
VRE_ERROR_NOMATCH == -1

\* default grouping of a new engine
VSL_g_vxid == 1

----------------------------------------------------------------------------
(* Log records, as the log source hands them to the dispatch callback *)

\* identifiers and tags the modelled log carries
Vxids == {0, 1}
Tags == {1, 2}
Payloads == {"a", "b"}

\* sel: the record passes the source's own selector (VSL_Match)
Record(v, t, d, s) == [vxid |-> v, tag |-> t, data |-> d, sel |-> s]

\* the regex collaborator: the one compiled expression matches payload "a"
VRE_exec(vre, data) == IF data = "a" THEN 0 ELSE VRE_ERROR_NOMATCH

----------------------------------------------------------------------------
(* struct logexp_test *)

Test(skip_max, vxid, tag, vre) ==
    [skip_max |-> skip_max, vxid |-> vxid, tag |-> tag, vre |-> vre]

(* struct logexp, as logexp_new() leaves it, with the state of its thread: *)
(* tp is the position of logexp_thread ("none" when no thread exists),     *)
(* cancel a pending pthread_cancel(), i the last value VSLQ_Dispatch()     *)
(* returned.  log, nthr and iw are history: the classifications of the     *)
(* current run, the number of threads created and not yet joined, and      *)
(* whether the last argument processed on the engine waited implicitly;    *)
(* spec is the text last given to logexp_spec(); seen counts the records   *)
(* VSL_Next() has handed out in the dispatch call under way, and left is   *)
(* the number of records of the last batch that its call did not read.     *)
logexp_new_obj ==
    [ run |-> FALSE, tests |-> <<>>,
      test |-> NULL, skip_cnt |-> 0, vxid_last |-> 0, tag_last |-> 0,
      d_arg |-> 0, g_arg |-> VSL_g_vxid, query |-> "NULL",
      n_arg |-> "NULL", vsl |-> {}, vsm_open |-> FALSE, vslq |-> FALSE,
      tp |-> "none", cancel |-> FALSE,
      i |-> 0, log |-> <<>>, nthr |-> 0, iw |-> FALSE, spec |-> <<>>,
      seen |-> 0, left |-> 0 ]

----------------------------------------------------------------------------
(* logexp_next(): move le->test to the next pattern of the list *)

VTAILQ_FIRST(tests) == IF Len(tests) > 0 THEN 1 ELSE NULL
VTAILQ_NEXT(tests, i) == IF i < Len(tests) THEN i + 1 ELSE NULL

\* logexp_next that goes back to the first pattern after the last one
logexp_next_wraps(e) ==
    IF e.test # NULL /\ e.test < Len(e.tests)
    THEN [e EXCEPT !.test = e.test + 1]
    ELSE [e EXCEPT !.test = VTAILQ_FIRST(e.tests)]

logexp_next(e) ==
    IF e.test # NULL
    THEN [e EXCEPT !.test = VTAILQ_NEXT(e.tests, e.test)]
    ELSE [e EXCEPT !.test = VTAILQ_FIRST(e.tests)]

----------------------------------------------------------------------------
(* logexp_dispatch(): the callback VSLQ_Dispatch() runs on a batch pt[] of  *)
(* transactions, each a sequence of records.                               *)

\* RecordOk that runs the regex whatever the tag matcher is
RecordOk_regex_any_tag(e, t, r) ==
    /\ IF t.vxid = LE_LAST THEN e.vxid_last = r.vxid
       ELSE IF t.vxid >= 0 THEN t.vxid = r.vxid
       ELSE TRUE
    /\ IF t.tag = LE_LAST THEN e.tag_last = r.tag
       ELSE IF t.tag >= 0 THEN t.tag = r.tag
       ELSE TRUE
    /\ ~ ( /\ t.vre # NULL
           /\ VRE_exec(t.vre, r.data) = VRE_ERROR_NOMATCH )

\* lines 267-287: does record r satisfy pattern t, given the cursor of e
RecordOk(e, t, r) ==
    /\ IF t.vxid = LE_LAST THEN e.vxid_last = r.vxid
       ELSE IF t.vxid >= 0 THEN t.vxid = r.vxid
       ELSE TRUE
    /\ IF t.tag = LE_LAST THEN e.tag_last = r.tag
       ELSE IF t.tag >= 0 THEN t.tag = r.tag
       ELSE TRUE
    /\ ~ ( /\ t.vre # NULL
           /\ t.tag >= 0
           /\ t.tag = r.tag
           /\ VRE_exec(t.vre, r.data) = VRE_ERROR_NOMATCH )

\* RecordSkip with the comparison off by one
RecordSkip_off_by_one(e, t) ==
    t.skip_max = LE_ANY \/ t.skip_max >= e.skip_cnt

\* lines 289-292: a record that is not ok is tolerated
RecordSkip(e, t) ==
    t.skip_max = LE_ANY \/ t.skip_max > e.skip_cnt

\* the history entry of one classification: the record, the active pattern
\* and the cursor the record was classified against
LogEntry(e, r, cls) ==
    [ cls |-> cls, test |-> e.test, pat |-> e.tests[e.test],
      vxid |-> r.vxid, tag |-> r.tag,
      skip |-> e.skip_cnt, vl |-> e.vxid_last, tl |-> e.tag_last ]

Logged(e, r, cls) == [e EXCEPT !.log = Append(@, LogEntry(e, r, cls))]

\* RecordMatch without line 310
RecordMatch_keeps_skip(e, r) ==
    logexp_next([e EXCEPT !.vxid_last = r.vxid, !.tag_last = r.tag])

\* RecordMatch without lines 308-309
RecordMatch_keeps_last(e, r) ==
    logexp_next([e EXCEPT !.skip_cnt = 0])

\* lines 308-312: the effects of a match
RecordMatch(e, r) ==
    logexp_next([e EXCEPT !.vxid_last = r.vxid, !.tag_last = r.tag,
                          !.skip_cnt = 0])

\* RecordFail that charges the failing record to the skip counter
RecordFail_counted(e, r) ==
    [e |-> [Logged(e, r, "FAIL") EXCEPT !.skip_cnt = @ + 1], ret |-> 2]

\* lines 318-321: signal fail
RecordFail(e, r) == [e |-> Logged(e, r, "FAIL"), ret |-> 2]

\* EndOfScript that never holds
EndOfScript_ignored(e) == FALSE

\* lines 312-314: end of test script
EndOfScript(e) == e.test = NULL

(* The while loop over the records of one transaction (lines 253-322).     *)
(* The result is the engine and the value returned, -1 meaning that the    *)
(* loop ran to the end of the transaction without returning, and 3 that    *)
(* the assertion of line 257 failed.                                       *)
RECURSIVE dispatch_records(_, _)
dispatch_records(e0, recs) ==
    IF recs = <<>> THEN [e |-> e0, ret |-> -1]
    ELSE LET r == Head(recs)
             e == [e0 EXCEPT !.seen = @ + 1]
         IN
      IF ~r.sel THEN dispatch_records(e, Tail(recs))
      ELSE IF e.test = NULL THEN [e |-> e, ret |-> 3]
      ELSE IF r.tag = SLT__Batch THEN dispatch_records(e, Tail(recs))
      ELSE LET t == e.tests[e.test] IN
        IF RecordOk(e, t, r)
        THEN LET e1 == RecordMatch(Logged(e, r, "MATCH"), r) IN
             IF EndOfScript(e1) THEN [e |-> e1, ret |-> 1]
             ELSE dispatch_records(e1, Tail(recs))
        ELSE IF RecordSkip(e, t)
        THEN dispatch_records(
                 [Logged(e, r, "SKIP") EXCEPT !.skip_cnt = @ + 1], Tail(recs))
        ELSE RecordFail(e, r)

RECURSIVE logexp_dispatch(_, _)

\* logexp_dispatch whose return of 1 ends the transaction only
logexp_dispatch_goes_on(e, pt) ==
    IF pt = <<>> THEN [e |-> e, ret |-> 0]
    ELSE LET d == dispatch_records(e, Head(pt)) IN
         IF d.ret \in {-1, 1} /\ Tail(pt) # <<>>
         THEN logexp_dispatch(d.e, Tail(pt)) ELSE d

\* the for loop over the transactions pt[i] (lines 252-325)
logexp_dispatch(e, pt) ==
    IF pt = <<>> THEN [e |-> e, ret |-> 0]
    ELSE LET d == dispatch_records(e, Head(pt)) IN
         IF d.ret = -1 THEN logexp_dispatch(d.e, Tail(pt)) ELSE d

----------------------------------------------------------------------------
(* logexp_thread(): the background thread of engine n *)

Live == {"begin", "loop", "sleep"}
Terminated == {"done", "failed", "cancelled"}

\* lines 334-343: the assertions on entry, then the first logexp_next()
ThreadBegin(n) ==
    /\ n \in DOMAIN le
    /\ le[n].tp = "begin"
    /\ LET e == le[n] IN
       IF e.run /\ e.vslq /\ e.test = NULL
       THEN le' = [le EXCEPT ![n] = [logexp_next(e) EXCEPT !.tp = "loop"]]
       ELSE le' = [le EXCEPT ![n].tp = "abort"]
    /\ UNCHANGED <<logexps, cpc, carg, cerr, vtc_stop>>

\* vtc_fatal() called by the background thread: the thread ends there, and
\* its outcome is a failure
vtc_fatal_thread == "failed"

\* AfterDispatch without the test of line 346
AfterDispatch_no_fail(e, i) ==
    [e EXCEPT !.i = i,
              !.tp = IF i = 3 THEN "abort"
                     ELSE IF i < 0 THEN vtc_fatal_thread
                     ELSE IF i = 0 /\ e.test # NULL THEN "sleep"
                     ELSE "loop"]

\* AfterDispatch that sleeps whenever the dispatch did not fail
AfterDispatch_always_sleeps(e, i) ==
    [e EXCEPT !.i = i,
              !.tp = IF i = 3 THEN "abort"
                     ELSE IF i = 2 \/ i < 0 THEN vtc_fatal_thread
                     ELSE "sleep"]

\* lines 346-351: what the loop does with the value i of VSLQ_Dispatch()
AfterDispatch(e, i) ==
    [e EXCEPT !.i = i,
              !.tp = IF i = 3 THEN "abort"
                     ELSE IF i = 2 \/ i < 0 THEN vtc_fatal_thread
                     ELSE IF i = 0 /\ e.test # NULL THEN "sleep"
                     ELSE "loop"]

\* the number of records of the batch pt
RECURSIVE NRecords(_)
NRecords(pt) == IF pt = <<>> THEN 0 ELSE Len(Head(pt)) + NRecords(Tail(pt))

(* lines 344-345: one VSLQ_Dispatch() that runs the callback on batch pt.   *)
(* It returns what the callback returned; when that is 0 it may return 1   *)
(* instead, to be called again at once (more).                             *)
ThreadDispatch(n, pt, more) ==
    /\ n \in DOMAIN le
    /\ le[n].tp = "loop"
    /\ le[n].test # NULL
    /\ LET d == logexp_dispatch(le[n], pt) IN
       /\ Len(d.e.log) <= MaxRecs
       /\ more => d.ret = 0
       /\ le' = [le EXCEPT ![n] =
                     [AfterDispatch(d.e, IF more THEN 1 ELSE d.ret)
                         EXCEPT !.left = NRecords(pt) - d.e.seen,
                                !.seen = 0]]
    /\ UNCHANGED <<logexps, cpc, carg, cerr, vtc_stop>>

\* lines 348-349: VSLQ_Dispatch() itself fails
ThreadDispatchError(n) ==
    /\ n \in DOMAIN le
    /\ le[n].tp = "loop"
    /\ le[n].test # NULL
    /\ le' = [le EXCEPT ![n] = [AfterDispatch(le[n], -2) EXCEPT !.left = 0]]
    /\ UNCHANGED <<logexps, cpc, carg, cerr, vtc_stop>>

\* line 351: VTIM_sleep() returns
ThreadSleep(n) ==
    /\ n \in DOMAIN le
    /\ le[n].tp = "sleep"
    /\ ~le[n].cancel
    /\ le' = [le EXCEPT ![n].tp = "loop"]
    /\ UNCHANGED <<logexps, cpc, carg, cerr, vtc_stop>>

\* lines 344, 353-355: the pattern list is exhausted, the thread returns NULL
ThreadEnd(n) ==
    /\ n \in DOMAIN le
    /\ le[n].tp = "loop"
    /\ le[n].test = NULL
    /\ le' = [le EXCEPT ![n].tp = "done"]
    /\ UNCHANGED <<logexps, cpc, carg, cerr, vtc_stop>>

\* a pending pthread_cancel() (line 519) acts on the thread
ThreadCancelled(n) ==
    /\ n \in DOMAIN le
    /\ le[n].tp \in Live
    /\ le[n].cancel
    /\ le' = [le EXCEPT ![n].tp = "cancelled"]
    /\ UNCHANGED <<logexps, cpc, carg, cerr, vtc_stop>>

----------------------------------------------------------------------------
(* cmd_logexp_expect(): compile one expect line, av = <<skip, vxid, tag>>   *)
(* or <<skip, vxid, tag, regex>>                                           *)

\* the tag vocabulary of the log source
VSL_tags == <<"ReqStart", "ReqEnd">>

VSL_Name2Tag(name) ==
    IF \E t \in 1..Len(VSL_tags) : VSL_tags[t] = name
    THEN CHOOSE t \in 1..Len(VSL_tags) : VSL_tags[t] = name
    ELSE -1

\* strtol(s, &end, 10) on the numerals the model writes: the value, and
\* whether the whole string was consumed
strtol(s) ==
    IF \E k \in -1..(MaxSkip + 1) : ToString(k) = s
    THEN [val |-> CHOOSE k \in -1..(MaxSkip + 1) : ToString(k) = s,
          end |-> TRUE]
    ELSE [val |-> 0, end |-> FALSE]

\* VRE_compile(): the expressions that compile
VRE_compile(re) == IF re = "^a" THEN 1 ELSE NULL

\* the result is the compiled pattern, or <<>> when the line is rejected
\* (vtc_fatal)
cmd_logexp_expect(av) ==
    IF Len(av) < 3 \/ Len(av) > 4 THEN <<>>
    ELSE LET skip == strtol(av[1])
             vx == strtol(av[2])
             skip_max == IF av[1] = "*" THEN LE_ANY ELSE skip.val
             vxid == IF av[2] = "*" THEN LE_ANY
                     ELSE IF av[2] = "=" THEN LE_LAST ELSE vx.val
             tag == IF av[3] = "*" THEN LE_ANY
                    ELSE IF av[3] = "=" THEN LE_LAST
                    ELSE VSL_Name2Tag(av[3])
             vre == IF Len(av) = 4 THEN VRE_compile(av[4]) ELSE NULL
         IN IF av[1] # "*" /\ (~skip.end \/ skip_max < 0) THEN <<>>
            ELSE IF av[2] \notin {"*", "="} /\ (~vx.end \/ vxid < 0) THEN <<>>
            ELSE IF av[3] \notin {"*", "="} /\ tag < 0 THEN <<>>
            ELSE IF Len(av) = 4 /\ vre = NULL THEN <<>>
            ELSE <<Test(skip_max, vxid, tag, vre)>>

\* logexp_delete_tests that frees nothing
logexp_delete_tests_keeps(e) == e

\* logexp_delete_tests()
logexp_delete_tests(e) == [e EXCEPT !.tests = <<>>]

(* parse_string() on the lines of a spec: each line is compiled and        *)
(* appended (VTAILQ_INSERT_TAIL); the first rejected line raises the fatal *)
(* error, the patterns appended before it stay on the list.                *)
RECURSIVE parse_string(_, _)
parse_string(e, lines) ==
    IF lines = <<>> THEN [e |-> e, err |-> ""]
    ELSE LET t == cmd_logexp_expect(Head(lines)) IN
         IF t = <<>> THEN [e |-> e, err |-> "syntax"]
         ELSE parse_string([e EXCEPT !.tests = @ \o t], Tail(lines))

\* logexp_spec()
logexp_spec(e, spec) ==
    parse_string([logexp_delete_tests(e) EXCEPT !.spec = spec], spec)

----------------------------------------------------------------------------
(* logexp_start(), logexp_close(), logexp_wait(), logexp_delete()          *)
(* Each yields the engine it leaves and err, the fatal error it raises in  *)
(* the controlling thread ("" when it returns normally, "assert" when one  *)
(* of its assertions fails).                                               *)

\* what the log source can answer to logexp_start()
SourceOutcomes == {"ok", "n_arg_error", "open_error", "cursor_error",
                   "query_error"}

Config(e) == [d_arg |-> e.d_arg, g_arg |-> e.g_arg, query |-> e.query,
              n_arg |-> e.n_arg, vsl |-> e.vsl]

\* logexp_spawn without line 400
logexp_spawn_keeps_last(e) ==
    [e EXCEPT !.test = NULL, !.skip_cnt = 0,
              !.run = TRUE,
              !.tp = "begin", !.cancel = FALSE, !.i = 0,
              !.nthr = @ + 1, !.log = <<>>, !.left = 0]

\* logexp_spawn without line 398
logexp_spawn_keeps_test(e) ==
    [e EXCEPT !.skip_cnt = 0,
              !.vxid_last = -1, !.tag_last = -1,
              !.run = TRUE,
              !.tp = "begin", !.cancel = FALSE, !.i = 0,
              !.nthr = @ + 1, !.log = <<>>, !.left = 0]

\* lines 398-402: reset the cursor, mark running, create the thread
logexp_spawn(e) ==
    [e EXCEPT !.test = NULL, !.skip_cnt = 0,
              !.vxid_last = -1, !.tag_last = -1,
              !.run = TRUE,
              !.tp = "begin", !.cancel = FALSE, !.i = 0,
              !.nthr = @ + 1, !.log = <<>>, !.left = 0]

\* logexp_start without the test of line 379
logexp_start_no_v_check(e, src) ==
    IF e.vslq THEN [e |-> e, err |-> "assert"]
    ELSE IF src = "n_arg_error" THEN [e |-> e, err |-> "-v argument error"]
    ELSE IF src = "open_error" THEN [e |-> e, err |-> "VSM_Open"]
    ELSE IF src = "cursor_error"
    THEN [e |-> [e EXCEPT !.vsm_open = TRUE], err |-> "VSL_CursorVSM"]
    ELSE IF src = "query_error"
    THEN [e |-> [e EXCEPT !.vsm_open = TRUE], err |-> "VSLQ_New"]
    ELSE [e |-> logexp_spawn([e EXCEPT !.vsm_open = TRUE, !.vslq = TRUE]),
          err |-> ""]

logexp_start(e, src) ==
    IF e.vslq THEN [e |-> e, err |-> "assert"]
    ELSE IF e.n_arg = "NULL" THEN [e |-> e, err |-> "-v argument not given"]
    ELSE IF src = "n_arg_error" THEN [e |-> e, err |-> "-v argument error"]
    ELSE IF src = "open_error" THEN [e |-> e, err |-> "VSM_Open"]
    ELSE IF src = "cursor_error"
    THEN [e |-> [e EXCEPT !.vsm_open = TRUE], err |-> "VSL_CursorVSM"]
    ELSE IF src = "query_error"
    THEN [e |-> [e EXCEPT !.vsm_open = TRUE], err |-> "VSLQ_New"]
    ELSE [e |-> logexp_spawn([e EXCEPT !.vsm_open = TRUE, !.vslq = TRUE]),
          err |-> ""]

\* logexp_close that leaves the query handle
logexp_close_keeps_vslq(e) == [e EXCEPT !.vsm_open = FALSE]

logexp_close(e) == [e EXCEPT !.vslq = FALSE, !.vsm_open = FALSE]

\* the outcome of a thread that vtc_fatal() ended
vtc_fatal_result == "FAILURE"

\* ThreadResult of a thread that never returns NULL
ThreadResult_never_null(tp) ==
    IF tp = "cancelled" THEN "PTHREAD_CANCELED" ELSE vtc_fatal_result

\* the value pthread_join() stores in res: what the thread returned (line
\* 355), PTHREAD_CANCELED, or what vtc_fatal() left
ThreadResult(tp) ==
    IF tp = "done" THEN "NULL"
    ELSE IF tp = "cancelled" THEN "PTHREAD_CANCELED"
    ELSE vtc_fatal_result

\* a pthread_join() that returns without waiting for the thread
pthread_join_no_wait(e) == [ready |-> TRUE, e |-> e, res |-> "NULL"]

(* pthread_join(le->tp, &res): ready tells whether the call can return,    *)
(* which is once the thread has terminated; e and res are what it leaves   *)
(* then.  The history of the run ends with its thread.                     *)
pthread_join(e) ==
    [ ready |-> e.tp \in Terminated,
      e |-> [e EXCEPT !.tp = "none", !.nthr = @ - 1, !.log = <<>>,
                      !.left = 0],
      res |-> ThreadResult(e.tp) ]

\* logexp_wait without line 412
logexp_wait_no_join(e, stop) ==
    [ ready |-> TRUE,
      e |-> [logexp_close(e) EXCEPT !.run = FALSE],
      err |-> "" ]

\* logexp_wait without the test of vtc_stop
logexp_wait_ignores_stop(e, stop) ==
    LET j == pthread_join(e)
        e1 == logexp_close(j.e)
    IN [ ready |-> j.ready,
         e |-> IF j.res # "NULL" THEN e1 ELSE [e1 EXCEPT !.run = FALSE],
         err |-> IF j.res # "NULL" THEN "logexp returned" ELSE "" ]

\* logexp_wait that takes a cancelled thread for a normal end
logexp_wait_cancel_ok(e, stop) ==
    LET j == pthread_join(e)
        e1 == logexp_close(j.e)
        bad == j.res \notin {"NULL", "PTHREAD_CANCELED"} /\ ~stop
    IN [ ready |-> j.ready,
         e |-> IF bad THEN e1 ELSE [e1 EXCEPT !.run = FALSE],
         err |-> IF bad THEN "logexp returned" ELSE "" ]

\* logexp_wait without line 416
logexp_wait_keeps_run(e, stop) ==
    LET j == pthread_join(e)
    IN [ ready |-> j.ready,
         e |-> logexp_close(j.e),
         err |-> IF j.res # "NULL" /\ ~stop THEN "logexp returned" ELSE "" ]

(* logexp_wait(): ready tells whether its pthread_join() can return, e and *)
(* err are what the function leaves then.                                  *)
logexp_wait(e, stop) ==
    LET j == pthread_join(e)
        e1 == logexp_close(j.e)
    IN [ ready |-> j.ready,
         e |-> IF j.res # "NULL" /\ ~stop THEN e1
               ELSE [e1 EXCEPT !.run = FALSE],
         err |-> IF j.res # "NULL" /\ ~stop THEN "logexp returned" ELSE "" ]

\* logexp_delete(): its assertions; the engine then leaves the model
logexp_delete(e) == IF e.run \/ e.vslq THEN "assert" ELSE ""

----------------------------------------------------------------------------
(* cmd_logexpect(): the controlling thread.  Each action is one directive  *)
(* argument, from the lookup of the engine to the continue of the loop at  *)
(* line 539.  pthread_join() blocks: an argument that has to wait for the  *)
(* thread is enabled once the thread has terminated.  A directive stops at *)
(* any argument: the break on vtc_error (line 540) is the controlling      *)
(* thread taking no more steps.                                            *)

\* lines 531-536: the engine named n, created by logexp_new() if need be
Engine(n) == IF n \in DOMAIN le THEN le[n] ELSE logexp_new_obj

\* line 554: people muck about with a running logexp
ImplicitWait(e) == e.run

\* lines 554-556: the implicit wait and the assertion that follows it
implicit_wait(e, stop) ==
    LET w == IF ImplicitWait(e) THEN logexp_wait(e, stop)
             ELSE [ready |-> TRUE, e |-> e, err |-> ""]
    IN [ ready |-> w.ready,
         e |-> [w.e EXCEPT !.iw = ImplicitWait(e)],
         err |-> IF w.err = "" /\ w.e.run THEN "assert" ELSE w.err ]

\* lines 558-573; macro_expand() may fail, and the directive returns
arg_v(e, v, expanded) ==
    IF v = "MISSING" THEN [e |-> e, err |-> "Missing -v argument"]
    ELSE [e |-> [e EXCEPT !.n_arg = IF expanded THEN v ELSE "NULL"],
          err |-> ""]

atoi(s) == IF strtol(s).end THEN strtol(s).val ELSE 0

\* lines 574-580
arg_d(e, v) ==
    IF v = "MISSING" THEN [e |-> e, err |-> "Missing -d argument"]
    ELSE [e |-> [e EXCEPT !.d_arg = atoi(v)], err |-> ""]

\* the grouping modes of the log source
VSLQ_grouping == <<"raw", "vxid", "request", "session">>

VSLQ_Name2Grouping(name) ==
    IF \E g \in 1..Len(VSLQ_grouping) : VSLQ_grouping[g] = name
    THEN (CHOOSE g \in 1..Len(VSLQ_grouping) : VSLQ_grouping[g] = name) - 1
    ELSE -1

\* lines 581-590
arg_g(e, v) ==
    IF v = "MISSING" THEN [e |-> e, err |-> "Missing -g argument"]
    ELSE [e |-> [e EXCEPT !.g_arg = VSLQ_Name2Grouping(v)],
          err |-> IF VSLQ_Name2Grouping(v) < 0 THEN "Unknown grouping"
                  ELSE ""]

\* lines 591-597
arg_q(e, v) ==
    IF v = "MISSING" THEN [e |-> e, err |-> "Missing -q argument"]
    ELSE [e |-> [e EXCEPT !.query = v], err |-> ""]

\* the source-filter options VSL_Arg() knows, and its answer: 1 handled,
\* 0 not an option of the log source, -1 a bad value
VSL_Arg(opt, val) ==
    IF opt \notin {"-i", "-c"} THEN 0
    ELSE IF opt = "-i" /\ VSL_Name2Tag(val) < 0 THEN -1
    ELSE 1

\* lines 607-616
arg_vsl(e, opt, v) ==
    IF v = "MISSING" THEN [e |-> e, err |-> "Unknown logexp argument"]
    ELSE IF VSL_Arg(opt, v) = 0 THEN [e |-> e, err |-> "VSL_Error"]
    ELSE [e |-> [e EXCEPT !.vsl = IF VSL_Arg(opt, v) > 0
                                  THEN @ \cup {<<opt, v>>} ELSE @],
          err |-> ""]

\* vtc_fatal() called by the controlling thread
vtc_fatal(msg) ==
    /\ cpc' = "fatal"
    /\ cerr' = msg

\* the engine n is left as r.e; the argument ends in the fatal error r.err
\* (carg then names the engine that raised it) or, without one, the
\* controlling thread goes on at position pc
Leave(n, r, pc) ==
    /\ le' = IF n \in DOMAIN le THEN [le EXCEPT ![n] = r.e]
             ELSE le @@ (n :> r.e)
    /\ logexps' = IF n \in DOMAIN le THEN logexps ELSE Append(logexps, n)
    /\ IF r.err # "" THEN vtc_fatal(r.err)
       ELSE cpc' = pc /\ cerr' = cerr
    /\ carg' = IF r.err # "" \/ pc = "join" THEN n ELSE 0
    /\ UNCHANGED vtc_stop

\* w, then (when w raised nothing) r
Then(w, r) == IF w.err # "" THEN [e |-> w.e, err |-> w.err] ELSE r

\* lines 542-548
ArgWait(n) ==
    /\ cpc = "idle"
    /\ IF ~Engine(n).run
       THEN Leave(n, [e |-> [Engine(n) EXCEPT !.iw = FALSE],
                      err |-> "logexp not -started"], "idle")
       ELSE LET w == logexp_wait(Engine(n), vtc_stop) IN
            /\ w.ready
            /\ Leave(n, [e |-> [w.e EXCEPT !.iw = FALSE], err |-> w.err],
                     "idle")

ArgV(n, v, expanded) ==
    /\ cpc = "idle"
    /\ LET w == implicit_wait(Engine(n), vtc_stop) IN
       /\ w.ready
       /\ Leave(n, Then(w, arg_v(w.e, v, expanded)), "idle")

ArgD(n, v) ==
    /\ cpc = "idle"
    /\ LET w == implicit_wait(Engine(n), vtc_stop) IN
       /\ w.ready
       /\ Leave(n, Then(w, arg_d(w.e, v)), "idle")

ArgG(n, v) ==
    /\ cpc = "idle"
    /\ LET w == implicit_wait(Engine(n), vtc_stop) IN
       /\ w.ready
       /\ Leave(n, Then(w, arg_g(w.e, v)), "idle")

ArgQ(n, v) ==
    /\ cpc = "idle"
    /\ LET w == implicit_wait(Engine(n), vtc_stop) IN
       /\ w.ready
       /\ Leave(n, Then(w, arg_q(w.e, v)), "idle")

ArgVSL(n, opt, v) ==
    /\ cpc = "idle"
    /\ LET w == implicit_wait(Engine(n), vtc_stop) IN
       /\ w.ready
       /\ Leave(n, Then(w, arg_vsl(w.e, opt, v)), "idle")

\* line 617
ArgSpec(n, spec) ==
    /\ cpc = "idle"
    /\ LET w == implicit_wait(Engine(n), vtc_stop) IN
       /\ w.ready
       /\ Leave(n, Then(w, logexp_spec(w.e, spec)), "idle")

\* lines 598-601
ArgStart(n, src) ==
    /\ cpc = "idle"
    /\ LET w == implicit_wait(Engine(n), vtc_stop) IN
       /\ w.ready
       /\ Leave(n, Then(w, logexp_start(w.e, src)), "idle")

\* lines 602-603: -run starts the engine, then blocks in the pthread_join()
\* of logexp_wait()
ArgRun(n, src) ==
    /\ cpc = "idle"
    /\ LET w == implicit_wait(Engine(n), vtc_stop) IN
       /\ w.ready
       /\ Leave(n, Then(w, logexp_start(w.e, src)), "join")

\* lines 604-605: the logexp_wait() of -run completes
RunJoin(n) ==
    /\ cpc = "join"
    /\ carg = n
    /\ LET w == logexp_wait(le[n], vtc_stop) IN
       /\ w.ready
       /\ Leave(n, [e |-> w.e, err |-> w.err], "idle")

----------------------------------------------------------------------------
(* cmd_logexpect() with av == NULL: reset and free, at harness teardown *)

\* line 513
ResetBegin ==
    /\ cpc = "idle"
    /\ cpc' = "reset"
    /\ UNCHANGED <<logexps, le, carg, cerr, vtc_stop>>

Remove(f, n) == [m \in DOMAIN f \ {n} |-> f[m]]

\* lines 515-519: the next engine of the registry is unlinked; a running
\* one is cancelled, to be waited on, the others go to logexp_delete()
ResetStep ==
    /\ cpc = "reset"
    /\ IF logexps = <<>>
       THEN cpc' = "idle" /\ UNCHANGED <<logexps, le, carg, cerr>>
       ELSE LET n == Head(logexps) IN
            /\ logexps' = Tail(logexps)
            /\ le' = IF le[n].run THEN [le EXCEPT ![n].cancel = TRUE] ELSE le
            /\ cpc' = IF le[n].run THEN "reset_join" ELSE "reset_delete"
            /\ carg' = n
            /\ cerr' = cerr
    /\ UNCHANGED vtc_stop

\* line 520: the logexp_wait() of a cancelled engine completes
ResetJoin(n) ==
    /\ cpc = "reset_join"
    /\ carg = n
    /\ LET w == logexp_wait(le[n], vtc_stop) IN
       /\ w.ready
       /\ le' = [le EXCEPT ![n] = w.e]
       /\ IF w.err # "" THEN vtc_fatal(w.err)
          ELSE cpc' = "reset_delete" /\ cerr' = cerr
    /\ UNCHANGED <<logexps, carg, vtc_stop>>

\* ResetDelete that frees the engine whatever state it is in
ResetDelete_unchecked(n) ==
    /\ cpc \in {"reset_join", "reset_delete"}
    /\ carg = n
    /\ le' = Remove(le, n)
    /\ cpc' = "reset"
    /\ carg' = 0
    /\ UNCHANGED <<logexps, cerr, vtc_stop>>

\* line 522: logexp_delete(), then the next engine
ResetDelete(n) ==
    /\ cpc = "reset_delete"
    /\ carg = n
    /\ IF logexp_delete(le[n]) # ""
       THEN vtc_fatal(logexp_delete(le[n])) /\ UNCHANGED <<le, carg>>
       ELSE /\ le' = Remove(le, n)
            /\ cpc' = "reset"
            /\ carg' = 0
            /\ cerr' = cerr
    /\ UNCHANGED <<logexps, vtc_stop>>

\* the harness starts shutting down
HarnessStop ==
    /\ ~vtc_stop
    /\ vtc_stop' = TRUE
    /\ UNCHANGED <<logexps, le, cpc, carg, cerr>>

----------------------------------------------------------------------------
(* The inputs *)

\* the shapes of the batches pt[] one dispatch call is given
Batches(R) ==
    {<<>>} \cup {<< <<r>> >> : r \in R}
           \cup {<< <<r[1], r[2]>> >> : r \in R \X R}
           \cup {<< <<r[1]>>, <<r[2]>> >> : r \in R \X R}

SeqsUpTo(S, len) == UNION {[1..k -> S] : k \in 0..len}

(* The script of the lifecycle specification: every kind of argument, one  *)
(* pattern, a record that matches it and one that does not.                *)
LifeLine == <<"0", "*", "ReqStart">>
LifeSpecs == SeqsUpTo({LifeLine}, MaxTests) \cup {<< <<"0", "*">> >>}
LifeRecs == {Record(1, 1, "a", TRUE), Record(1, 2, "a", TRUE)}
LifeBatches == Batches(LifeRecs)

(* The script of the matching specification: one engine is given a log    *)
(* source and specs made of the expect lines below, and is started and     *)
(* waited on, any number of times.  The lines use every kind of skip, vxid *)
(* and tag matcher, with and without a regex; the records carry both       *)
(* vxids, both tags and both payloads, and there are a batch delimiter and *)
(* a record the source's selector rejects.                                 *)
MatchLines ==
    { <<"0", "*", "ReqStart">>,
      <<"0", "=", "ReqEnd">>,
      <<ToString(MaxSkip), "*", "=">>,
      <<"*", "1", "ReqStart", "^a">> }
MatchSpecs == SeqsUpTo(MatchLines, MaxTests)
MatchRecs ==
    {Record(v, t, "a", TRUE) : v \in Vxids, t \in Tags}
    \cup {Record(v, 1, "b", TRUE) : v \in Vxids}
    \cup {Record(0, SLT__Batch, "a", TRUE), Record(0, 1, "a", FALSE)}
MatchBatches == Batches(MatchRecs)

Names == {1}

----------------------------------------------------------------------------
(* The specifications *)

Init ==
    /\ logexps = <<>>
    /\ le = <<>>
    /\ cpc = "idle"
    /\ carg = 0
    /\ cerr = ""
    /\ vtc_stop = FALSE

Next ==
    \/ \E n \in Names : ArgWait(n)
    \/ \E n \in Names, v \in {"v1", "MISSING"}, x \in BOOLEAN : ArgV(n, v, x)
    \/ \E n \in Names, v \in {"1", "MISSING"} : ArgD(n, v)
    \/ \E n \in Names, v \in {"request", "bogus"} : ArgG(n, v)
    \/ \E n \in Names, v \in {"q", "MISSING"} : ArgQ(n, v)
    \/ \E n \in Names, o \in {"-i", "-Z"}, v \in {"ReqEnd", "bogus"} :
           ArgVSL(n, o, v)
    \/ \E n \in Names, sp \in LifeSpecs : ArgSpec(n, sp)
    \/ \E n \in Names, src \in SourceOutcomes : ArgStart(n, src)
    \/ \E n \in Names, src \in SourceOutcomes : ArgRun(n, src)
    \/ \E n \in Names : RunJoin(n)
    \/ ResetBegin
    \/ ResetStep
    \/ \E n \in Names : ResetJoin(n)
    \/ \E n \in Names : ResetDelete(n)
    \/ HarnessStop
    \/ \E n \in Names : ThreadBegin(n)
    \/ \E n \in Names :
           \/ \E pt \in LifeBatches : ThreadDispatch(n, pt, FALSE)
           \/ ThreadDispatch(n, <<>>, TRUE)
    \/ \E n \in Names : ThreadDispatchError(n)
    \/ \E n \in Names : ThreadSleep(n)
    \/ \E n \in Names : ThreadEnd(n)
    \/ \E n \in Names : ThreadCancelled(n)

Spec == Init /\ [][Next]_vars

NextMatch ==
    \/ \E n \in Names : ArgWait(n)
    \/ \E n \in Names : ArgV(n, "v1", TRUE)
    \/ \E n \in Names, sp \in MatchSpecs : ArgSpec(n, sp)
    \/ \E n \in Names : ArgStart(n, "ok")
    \/ \E n \in Names : ThreadBegin(n)
    \/ \E n \in Names :
           \/ \E pt \in MatchBatches : ThreadDispatch(n, pt, FALSE)
           \/ ThreadDispatch(n, <<>>, TRUE)
    \/ \E n \in Names : ThreadDispatchError(n)
    \/ \E n \in Names : ThreadSleep(n)
    \/ \E n \in Names : ThreadEnd(n)

SpecMatch == Init /\ [][NextMatch]_vars

(* The loop specification: the lifecycle of one engine with fairness.  The *)
(* patterns tolerate no skip, the log source hands out one record at a     *)
(* time, and ThreadMatch is the dispatch of a record that satisfies the    *)
(* active pattern.                                                         *)
LoopLines == {<<"0", "*", "ReqStart">>, <<"0", "=", "ReqEnd">>}
LoopSpecs == SeqsUpTo(LoopLines, MaxTests)
LoopRecs == {Record(v, t, "a", TRUE) : v \in Vxids, t \in Tags}
LoopBatches == {<<>>} \cup {<< <<r>> >> : r \in LoopRecs}

ThreadMatch(n) ==
    /\ n \in DOMAIN le
    /\ le[n].tp = "loop"
    /\ le[n].test # NULL
    /\ \E r \in LoopRecs :
          /\ RecordOk(le[n], le[n].tests[le[n].test], r)
          /\ ThreadDispatch(n, << <<r>> >>, FALSE)

NextLoop ==
    \/ \E n \in Names : ArgWait(n)
    \/ \E n \in Names : ArgV(n, "v1", TRUE)
    \/ \E n \in Names, sp \in LoopSpecs : ArgSpec(n, sp)
    \/ \E n \in Names : ArgStart(n, "ok")
    \/ ResetBegin
    \/ ResetStep
    \/ \E n \in Names : ResetJoin(n)
    \/ \E n \in Names : ResetDelete(n)
    \/ HarnessStop
    \/ \E n \in Names : ThreadBegin(n)
    \/ \E n \in Names :
           \/ \E pt \in LoopBatches : ThreadDispatch(n, pt, FALSE)
           \/ ThreadDispatch(n, <<>>, TRUE)
    \/ \E n \in Names : ThreadMatch(n)
    \/ \E n \in Names : ThreadDispatchError(n)
    \/ \E n \in Names : ThreadSleep(n)
    \/ \E n \in Names : ThreadEnd(n)
    \/ \E n \in Names : ThreadCancelled(n)

\* the thread is scheduled, a pending cancellation acts, and the log source
\* again and again hands out a record that satisfies the active pattern
\* when there is one
FairLoop ==
    \A n \in Names :
        /\ WF_vars(ThreadBegin(n))
        /\ WF_vars(ThreadSleep(n))
        /\ WF_vars(ThreadEnd(n))
        /\ WF_vars(ThreadCancelled(n))
        /\ SF_vars(ThreadMatch(n))

SpecLoop == Init /\ [][NextLoop]_vars /\ FairLoop

(* The regex specification: every pattern has a regex, with a tag matcher  *)
(* of each kind; the records of vxid 0 carry a payload the expression      *)
(* matches, those of vxid 1 one it does not match.                         *)
RegexLines ==
    { <<"0", "*", "*", "^a">>,
      <<"0", "*", "=", "^a">>,
      <<ToString(MaxSkip), "*", "ReqStart", "^a">> }
RegexSpecs == SeqsUpTo(RegexLines, MaxTests)
RegexRecs ==
    {Record(0, t, "a", TRUE) : t \in Tags}
    \cup {Record(1, t, "b", TRUE) : t \in Tags}
RegexBatches == {<<>>} \cup {<< <<r>> >> : r \in RegexRecs}

NextRegex ==
    \/ \E n \in Names : ArgWait(n)
    \/ \E n \in Names : ArgV(n, "v1", TRUE)
    \/ \E n \in Names, sp \in RegexSpecs : ArgSpec(n, sp)
    \/ \E n \in Names : ArgStart(n, "ok")
    \/ \E n \in Names : ThreadBegin(n)
    \/ \E n \in Names, pt \in RegexBatches : ThreadDispatch(n, pt, FALSE)
    \/ \E n \in Names : ThreadSleep(n)
    \/ \E n \in Names : ThreadEnd(n)

SpecRegex == Init /\ [][NextRegex]_vars

(* The teardown specification: two engines are created, given a log source *)
(* and a pattern, started and waited on; the harness may start shutting    *)
(* down, and resets the command at any time.                               *)
TeardownNames == {1, 2}
TeardownBatches == {<<>>} \cup {<< <<r>> >> : r \in LifeRecs}

NextTeardown ==
    \/ \E n \in TeardownNames : ArgWait(n)
    \/ \E n \in TeardownNames : ArgV(n, "v1", TRUE)
    \/ \E n \in TeardownNames : ArgSpec(n, <<LifeLine>>)
    \/ \E n \in TeardownNames : ArgStart(n, "ok")
    \/ ResetBegin
    \/ ResetStep
    \/ \E n \in TeardownNames : ResetJoin(n)
    \/ \E n \in TeardownNames : ResetDelete(n)
    \/ HarnessStop
    \/ \E n \in TeardownNames : ThreadBegin(n)
    \/ \E n \in TeardownNames, pt \in TeardownBatches :
           ThreadDispatch(n, pt, FALSE)
    \/ \E n \in TeardownNames : ThreadSleep(n)
    \/ \E n \in TeardownNames : ThreadEnd(n)
    \/ \E n \in TeardownNames : ThreadCancelled(n)

SpecTeardown == Init /\ [][NextTeardown]_vars

----------------------------------------------------------------------------
(* Properties of a run: the matcher (checked under SpecMatch) *)

Last(q) == q[Len(q)]

\* every classification of the run so far is MATCH or SKIP
AllMatchOrSkip(e) ==
    \A k \in 1..Len(e.log) : e.log[k].cls \in {"MATCH", "SKIP"}

\* the last classification is a MATCH against the last pattern of the list
ExhaustedByMatch(e) ==
    /\ e.log # <<>>
    /\ Last(e.log).cls = "MATCH"
    /\ Last(e.log).test = Len(e.tests)

\* the thread of the run has ended by itself, in success or in failure
RunEnded(e) == e.tp \in {"done", "failed"}

(* C1, as stated: for every pattern list, a run ends in success if and     *)
(* only if every classified record was MATCH or SKIP and the last          *)
(* classification was a MATCH that exhausted the pattern list.             *)
C1_SuccessOnlyByMatch ==
    \A n \in DOMAIN le :
        RunEnded(le[n]) =>
            (le[n].tp = "done"
                <=> AllMatchOrSkip(le[n]) /\ ExhaustedByMatch(le[n]))

(* C1, amended: the equivalence holds for every non-empty pattern list; a  *)
(* run started with an empty pattern list ends in success without          *)
(* classifying any record.                                                 *)
C1_SuccessIffExhausted ==
    \A n \in DOMAIN le :
        RunEnded(le[n]) =>
            IF le[n].tests = <<>>
            THEN le[n].tp = "done" /\ le[n].log = <<>>
            ELSE (le[n].tp = "done"
                    <=> AllMatchOrSkip(le[n]) /\ ExhaustedByMatch(le[n]))

\* a run over two patterns succeeded after a skip and two matches
C1_Witness ==
    \E n \in DOMAIN le :
        /\ le[n].tp = "done"
        /\ Len(le[n].tests) = 2
        /\ Len(le[n].log) = 3
        /\ \E k \in 1..3 : le[n].log[k].cls = "SKIP"

(* C2: a FAIL classification is the last one of its run: the dispatch call *)
(* returned 2, the thread has ended in failure (and so stays until it is   *)
(* joined), and the cursor is the one the failing record was classified    *)
(* against.                                                                *)
C2_FailIsFinal ==
    \A n \in DOMAIN le :
        \A k \in 1..Len(le[n].log) :
            le[n].log[k].cls = "FAIL" =>
                /\ k = Len(le[n].log)
                /\ le[n].i = 2
                /\ le[n].tp = "failed"
                /\ le[n].test = le[n].log[k].test
                /\ le[n].skip_cnt = le[n].log[k].skip
                /\ le[n].vxid_last = le[n].log[k].vl
                /\ le[n].tag_last = le[n].log[k].tl

\* a record failed after a match and a skip had changed the cursor
C2_Witness ==
    \E n \in DOMAIN le :
        /\ Len(le[n].log) = 3
        /\ le[n].log[1].cls = "MATCH"
        /\ le[n].log[2].cls = "SKIP"
        /\ le[n].log[3].cls = "FAIL"

\* the number of SKIP entries that directly precede entry k of the log
RECURSIVE SkipsBefore(_, _)
SkipsBefore(log, k) ==
    IF k > 1 /\ log[k - 1].cls = "SKIP" THEN 1 + SkipsBefore(log, k - 1)
    ELSE 0

(* C3: the skip counter a record is classified against is the number of    *)
(* consecutive records skipped just before it; against a pattern with a    *)
(* numeric skip_max = N a non-matching record is SKIP while that number is *)
(* below N and FAIL when it is N, and skip_cnt never exceeds N while the    *)
(* pattern is active.                                                      *)
C3_SkipBudget ==
    \A n \in DOMAIN le :
        /\ \A k \in 1..Len(le[n].log) :
              LET en == le[n].log[k]
                  N == le[n].tests[en.test].skip_max
              IN /\ en.skip = SkipsBefore(le[n].log, k)
                 /\ N >= 0 =>
                      /\ en.cls = "SKIP" => en.skip < N
                      /\ en.cls = "FAIL" => en.skip = N
        /\ (le[n].tp # "none" /\ le[n].test # NULL
              /\ le[n].tests[le[n].test].skip_max >= 0)
             => le[n].skip_cnt <= le[n].tests[le[n].test].skip_max

\* a pattern with a budget of MaxSkip records: MaxSkip skips, then a FAIL
C3_Witness ==
    \E n \in DOMAIN le :
        /\ le[n].log # <<>>
        /\ Last(le[n].log).cls = "FAIL"
        /\ Last(le[n].log).skip = MaxSkip
        /\ le[n].tests[Last(le[n].log).test].skip_max = MaxSkip

\* the last MATCH entry before entry k of the log (0: none)
RECURSIVE MatchBefore(_, _)
MatchBefore(log, k) ==
    IF k <= 1 THEN 0
    ELSE IF log[k - 1].cls = "MATCH" THEN k - 1
    ELSE MatchBefore(log, k - 1)

(* C4: a record classified MATCH against a pattern whose vxid (tag)        *)
(* matcher is LAST comes after an earlier MATCH of the same run, and its   *)
(* vxid (tag) is the one of the most recent earlier MATCH.                 *)
C4_BackReference ==
    \A n \in DOMAIN le :
        \A k \in 1..Len(le[n].log) :
            LET en == le[n].log[k]
                t == le[n].tests[en.test]
                m == MatchBefore(le[n].log, k)
            IN en.cls = "MATCH" =>
                 /\ t.vxid = LE_LAST =>
                      m # 0 /\ le[n].log[m].vxid = en.vxid
                 /\ t.tag = LE_LAST =>
                      m # 0 /\ le[n].log[m].tag = en.tag

\* a tag back-reference matched after a match and a skipped record
C4_Witness ==
    \E n \in DOMAIN le :
        /\ Len(le[n].log) = 3
        /\ le[n].log[1].cls = "MATCH"
        /\ le[n].log[2].cls = "SKIP"
        /\ le[n].log[3].cls = "MATCH"
        /\ le[n].tests[2].tag = LE_LAST

----------------------------------------------------------------------------
(* Properties of the lifecycle (checked under Spec) *)

\* what the controlling thread writes of an engine: its pattern list, its
\* configuration, its running flag, its handles and its thread
Owned(e) == <<e.tests, Config(e), e.run, e.vslq, e.vsm_open, e.nthr>>

(* C5: no step taken while the thread of an engine is executing changes    *)
(* the engine's pattern list, configuration, running flag or handles,      *)
(* creates another thread for it (which is what resets the cursor) or      *)
(* deletes it: the controlling thread writes them only once it has waited. *)
C5_NoWriteWhileRunning ==
    [][\A n \in DOMAIN le :
          le[n].tp \in Live =>
              n \in DOMAIN le' /\ Owned(le'[n]) = Owned(le[n])]_vars

\* the last argument processed on an engine found it running, waited for
\* its thread and then changed the configuration
C5_Witness ==
    \E n \in DOMAIN le :
        /\ le[n].iw
        /\ ~le[n].run
        /\ le[n].tp = "none"
        /\ le[n].vxid_last = -1
        /\ cpc = "idle"

(* C6: an engine never has more than one thread created and not yet        *)
(* joined.                                                                 *)
C6_OneThread ==
    \A n \in DOMAIN le :
        /\ le[n].nthr <= 1
        /\ le[n].nthr = 1 <=> le[n].tp # "none"

\* -start on a running engine: it waited implicitly, then created a thread
C6_Witness ==
    \E n \in DOMAIN le :
        /\ le[n].iw
        /\ le[n].run
        /\ le[n].tp \in Live
        /\ le[n].nthr = 1

\* this step joins the thread of engine n
Joins(n) ==
    /\ le[n].tp \in Terminated
    /\ n \in DOMAIN le' => le'[n].tp = "none"

\* this step raises the fatal error of logexp_wait()
WaitRaises == cerr' = "logexp returned" /\ cpc' = "fatal" /\ cpc # "fatal"

(* C7: the wait that joins a thread that ended by itself raises its fatal  *)
(* error if and only if the thread ended in failure and the harness is not *)
(* shutting down; that error is raised by no other step.                   *)
C7_FailureSurfacesAtWait ==
    [][/\ \A n \in DOMAIN le :
             Joins(n) /\ le[n].tp \in {"done", "failed"} =>
                 (WaitRaises <=> le[n].tp = "failed" /\ ~vtc_stop)
       /\ WaitRaises => \E n \in DOMAIN le : Joins(n)]_vars

\* the wait on a thread whose expectation failed has raised
C7_Witness ==
    /\ cpc = "fatal"
    /\ cerr = "logexp returned"
    /\ le[carg].i = 2
    /\ ~le[carg].cancel

(* C8: the wait that joins a cancelled thread raises its fatal error if    *)
(* and only if the harness is not shutting down.                           *)
C8_CancelSurfacesAtWait ==
    [][\A n \in DOMAIN le :
          Joins(n) /\ le[n].tp = "cancelled" =>
              (WaitRaises <=> ~vtc_stop)]_vars

\* the wait on a thread cancelled in its loop has raised
C8_Witness ==
    /\ cpc = "fatal"
    /\ cerr = "logexp returned"
    /\ le[carg].cancel
    /\ le[carg].test # NULL
    /\ le[carg].i = 0

(* C9: the running flag of an engine is cleared (or the engine deleted)    *)
(* only by a step that finds its thread terminated, and a wait that joins  *)
(* the thread without raising leaves the engine not running, its query     *)
(* handle closed.                                                          *)
C9_WaitCompletes ==
    [][\A n \in DOMAIN le :
          /\ (le[n].run /\ (n \in DOMAIN le' => ~le'[n].run))
                => le[n].tp \in Terminated
          /\ (Joins(n) /\ ~WaitRaises /\ n \in DOMAIN le')
                => ~le'[n].run /\ ~le'[n].vslq]_vars

\* an engine that was started has been waited on
C9_Witness ==
    \E n \in DOMAIN le :
        /\ le[n].vxid_last = -1
        /\ le[n].tp = "none"
        /\ ~le[n].run
        /\ ~le[n].vslq
        /\ ~le[n].iw
        /\ cpc = "idle"

\* the fatal errors of logexp_start()
StartErrors == {"-v argument not given", "-v argument error", "VSM_Open",
                "VSL_CursorVSM", "VSLQ_New"}

(* C10: when logexp_start() has raised a fatal error the engine is not     *)
(* running, has no thread and no query handle, and no record has been      *)
(* classified; and an engine that has a thread has a log source (-v).      *)
C10_StartFailsSynchronously ==
    /\ (cpc = "fatal" /\ cerr \in StartErrors) =>
          /\ ~le[carg].run
          /\ le[carg].tp = "none"
          /\ le[carg].nthr = 0
          /\ ~le[carg].vslq
          /\ le[carg].log = <<>>
    /\ \A n \in DOMAIN le : le[n].nthr > 0 => le[n].n_arg # "NULL"

\* -start without -v on an engine that has patterns
C10_Witness ==
    /\ cpc = "fatal"
    /\ cerr = "-v argument not given"
    /\ le[carg].tests # <<>>

----------------------------------------------------------------------------
(* Properties of the teardown (checked under SpecTeardown) *)

\* the positions of the controlling thread inside the reset
TeardownPcs == {"reset", "reset_join", "reset_delete"}

\* what the reset does in this step, in the order the code does it
TeardownOrder ==
    /\ \A n \in DOMAIN le :
          n \notin DOMAIN le' =>
              /\ cpc = "reset_delete"
              /\ ~le[n].run
              /\ ~le[n].vslq
              /\ le[n].tp = "none"
    /\ (cpc = "reset_join" /\ cpc' # cpc) =>
          /\ le[carg].cancel
          /\ le[carg].tp \in Terminated
    /\ (cpc = "reset" /\ cpc' = "idle") =>
          /\ logexps' = <<>>
          /\ DOMAIN le' = {}

\* the original statement of C11: the reset destroys every engine of the
\* registry, in the order of TeardownOrder, and never stops before the end
C11_TeardownDestroysAll ==
    [][/\ TeardownOrder
       /\ cpc \in TeardownPcs => cpc' # "fatal"]_vars

(* C11: an engine is destroyed (with its patterns) only by the reset, when *)
(* it is not running, its query handle is closed and its thread joined; a  *)
(* running engine is cancelled, then waited on, then destroyed; when the   *)
(* reset ends the registry is empty and no engine is left; and the reset   *)
(* stops before its end only when its wait on a cancelled engine raises    *)
(* the fatal error, which needs a harness that is not shutting down.       *)
C11_TeardownOrder ==
    [][/\ TeardownOrder
       /\ (cpc \in TeardownPcs /\ cpc' = "fatal") =>
             /\ cpc = "reset_join"
             /\ WaitRaises
             /\ ~vtc_stop]_vars

\* the first of two running engines has been cancelled and waited on and
\* is about to be destroyed, the second is still in the registry
C11_Witness ==
    /\ cpc = "reset_delete"
    /\ carg = 1
    /\ le[1].cancel
    /\ ~le[1].run
    /\ vtc_stop
    /\ logexps = <<2>>
    /\ le[2].run

----------------------------------------------------------------------------
(* Properties of the pattern list and of the cursor (checked under         *)
(* SpecMatch)                                                              *)

\* the patterns of a spec, line by line
Compiled(spec) == [k \in 1..Len(spec) |-> cmd_logexp_expect(spec[k])[1]]

(* C12: the pattern list of an engine holds exactly the patterns of the    *)
(* spec compiled last, in the order of its lines, and every record of a    *)
(* run is classified against a pattern of that spec.                       *)
C12_SpecReplacesPatterns ==
    \A n \in DOMAIN le :
        cpc # "fatal" =>
            /\ le[n].tests = Compiled(le[n].spec)
            /\ \A k \in 1..Len(le[n].log) :
                  /\ le[n].log[k].test \in 1..Len(le[n].spec)
                  /\ le[n].log[k].pat = Compiled(le[n].spec)[le[n].log[k].test]

\* an earlier run ended with a match on vxid 0, against the last pattern
\* of the list of that time; the list now holds one pattern, which asks
\* for vxid 1
C12_Witness ==
    \E n \in DOMAIN le :
        /\ Len(le[n].tests) = 1
        /\ le[n].tests[1].vxid = 1
        /\ le[n].vxid_last = 0
        /\ le[n].tp = "none"
        /\ cpc = "idle"

\* the thread of the engine is in its loop, or has left it by itself
InRun(e) == e.tp \in {"loop", "sleep", "done", "failed"}

\* the MATCH entries among the first k entries of the log
Matches(log, k) == {j \in 1..k : log[j].cls = "MATCH"}

(* C13: the k-th record of a run is classified against the pattern that    *)
(* follows as many patterns as there were MATCHes before it, so the cursor *)
(* moves by one pattern on a MATCH, stays on SKIP and FAIL and never goes  *)
(* back; after the records classified so far it is on the pattern that     *)
(* follows the matched ones, or on none when all have matched.             *)
C13_CursorForward ==
    \A n \in DOMAIN le :
        /\ \A k \in 1..Len(le[n].log) :
              le[n].log[k].test
                  = Cardinality(Matches(le[n].log, k - 1)) + 1
        /\ InRun(le[n]) =>
              LET m == Cardinality(Matches(le[n].log, Len(le[n].log)))
              IN le[n].test = IF m < Len(le[n].tests) THEN m + 1 ELSE NULL

\* a skip and a match on the first pattern, then a failure on the second
C13_Witness ==
    \E n \in DOMAIN le :
        /\ Len(le[n].log) = 3
        /\ le[n].log[1].cls = "SKIP"
        /\ le[n].log[2].cls = "MATCH"
        /\ le[n].log[3].cls = "FAIL"

\* the SKIP entries before entry k of the log that were charged to the
\* pattern with index t
SkipsOf(log, k, t) ==
    {j \in 1..(k - 1) : log[j].cls = "SKIP" /\ log[j].test = t}

(* C14: the skip counter a record is classified against counts the skips   *)
(* charged to the active pattern only: it is zero for the first record of  *)
(* a run and for the record that follows a MATCH, and after a MATCH and    *)
(* after the first advance of a run the counter of the engine is zero.     *)
C14_SkipCountPatternScoped ==
    \A n \in DOMAIN le :
        /\ \A k \in 1..Len(le[n].log) :
              /\ le[n].log[k].skip
                    = Cardinality(SkipsOf(le[n].log, k, le[n].log[k].test))
              /\ (k = 1 \/ le[n].log[k - 1].cls = "MATCH")
                    => le[n].log[k].skip = 0
        /\ (InRun(le[n])
              /\ (le[n].log = <<>> \/ Last(le[n].log).cls = "MATCH"))
             => le[n].skip_cnt = 0

\* the first pattern used up a skip; the first record after its match was
\* skipped too, against a counter of zero
C14_Witness ==
    \E n \in DOMAIN le :
        /\ Len(le[n].log) = 3
        /\ le[n].log[1].cls = "SKIP"
        /\ le[n].log[2].cls = "MATCH"
        /\ le[n].log[3].cls = "SKIP"
        /\ le[n].log[3].skip = 0

\* vxid_last and tag_last as the first k entries of the log leave them
LastOf(log, k) ==
    LET m == MatchBefore(log, k + 1)
    IN IF m = 0 THEN [vxid |-> -1, tag |-> -1]
       ELSE [vxid |-> log[m].vxid, tag |-> log[m].tag]

(* C15: during a run vxid_last and tag_last are the vxid and the tag of    *)
(* the record classified MATCH last (-1 before the first MATCH): records   *)
(* classified SKIP or FAIL, batch delimiters and records the selector of   *)
(* the source rejects leave them as they are.                              *)
C15_LastOnlyOnMatch ==
    \A n \in DOMAIN le :
        /\ \A k \in 1..Len(le[n].log) :
              /\ le[n].log[k].vl = LastOf(le[n].log, k - 1).vxid
              /\ le[n].log[k].tl = LastOf(le[n].log, k - 1).tag
        /\ InRun(le[n]) =>
              /\ le[n].vxid_last = LastOf(le[n].log, Len(le[n].log)).vxid
              /\ le[n].tag_last = LastOf(le[n].log, Len(le[n].log)).tag

\* a record with another vxid and another tag was skipped after a match
C15_Witness ==
    \E n \in DOMAIN le :
        /\ Len(le[n].log) = 2
        /\ le[n].log[1].cls = "MATCH"
        /\ le[n].log[2].cls = "SKIP"
        /\ le[n].log[2].vxid # le[n].log[1].vxid
        /\ le[n].log[2].tag # le[n].log[1].tag
        /\ le[n].tp = "sleep"

(* C16: when the records of a run have exhausted the pattern list, the     *)
(* dispatch call that classified the last of them returned 1 there, even   *)
(* with records of its batch left unread: the log ends with that MATCH,    *)
(* against the last pattern, the cursor is as that MATCH left it, and the  *)
(* thread goes on to end in success.                                       *)
C16_ReturnsAtExhaustion ==
    \A n \in DOMAIN le :
        (le[n].tp # "none" /\ le[n].log # <<>>
            /\ Cardinality(Matches(le[n].log, Len(le[n].log)))
                   = Len(le[n].tests))
        => /\ le[n].i = 1
           /\ le[n].tp \in {"loop", "done"}
           /\ Last(le[n].log).cls = "MATCH"
           /\ Last(le[n].log).test = Len(le[n].tests)
           /\ le[n].test = NULL
           /\ le[n].vxid_last = Last(le[n].log).vxid
           /\ le[n].tag_last = Last(le[n].log).tag
           /\ le[n].skip_cnt = 0

\* a run has ended in success with a record of its last batch unread
C16_Witness ==
    \E n \in DOMAIN le :
        /\ le[n].tp = "done"
        /\ le[n].log # <<>>
        /\ le[n].left > 0

----------------------------------------------------------------------------
(* Properties of the start of a run (checked under Spec) *)

\* this step creates the thread of engine n
Spawned(n) ==
    /\ le'[n].tp = "begin"
    /\ n \in DOMAIN le => le[n].tp # "begin"

(* C17: the step that creates the thread of an engine leaves the cursor    *)
(* reset (no active pattern, skip_cnt 0, vxid_last and tag_last -1), the   *)
(* engine running, the thread at its beginning, and the controlling thread *)
(* past logexp_start(); the first step of the thread then puts the cursor  *)
(* on the first pattern and changes nothing else of it.                    *)
C17_StartResetsCursor ==
    [][\A n \in DOMAIN le' :
          /\ Spawned(n) =>
                /\ le'[n].test = NULL
                /\ le'[n].skip_cnt = 0
                /\ le'[n].vxid_last = -1
                /\ le'[n].tag_last = -1
                /\ le'[n].run
                /\ cpc' \in {"idle", "join"}
          /\ (n \in DOMAIN le /\ le[n].tp = "begin" /\ le'[n].tp # "begin"
                /\ ~le[n].cancel) =>
                /\ le'[n].tp = "loop"
                /\ le'[n].test = VTAILQ_FIRST(le'[n].tests)
                /\ le'[n].skip_cnt = 0
                /\ le'[n].vxid_last = -1
                /\ le'[n].tag_last = -1]_vars

\* -start on an engine that was running, the harness shutting down: the
\* run before may have failed; the new thread has not taken a step
C17_Witness ==
    \E n \in DOMAIN le :
        /\ le[n].tp = "begin"
        /\ le[n].iw
        /\ le[n].tests # <<>>
        /\ vtc_stop
        /\ cpc = "idle"

----------------------------------------------------------------------------
(* Properties of the dispatch loop (checked under SpecLoop) *)

\* how the thread of an engine leaves, and enters, the positions of its loop
LoopSteps ==
    \A n \in DOMAIN le \cap DOMAIN le' :
        /\ (le[n].tp \in Live /\ le'[n].tp \notin Live) =>
              \/ le'[n].tp = "done" /\ le[n].tp = "loop" /\ le[n].test = NULL
              \/ le'[n].tp = "failed" /\ (le'[n].i = 2 \/ le'[n].i < 0)
              \/ le'[n].tp = "cancelled" /\ le[n].cancel
        /\ (le[n].tp = "loop" /\ le'[n].tp = "loop"
              /\ le'[n].log # le[n].log) =>
              le'[n].test = NULL /\ le'[n].i = 1
        /\ (le[n].tp # "sleep" /\ le'[n].tp = "sleep") =>
              /\ le[n].tp = "loop"
              /\ le'[n].i = 0
              /\ le'[n].test # NULL

\* no record the log source can hand out satisfies the active pattern
Starved(e) ==
    /\ e.tp \in {"loop", "sleep"}
    /\ e.test # NULL
    /\ \A r \in LoopRecs : ~RecordOk(e, e.tests[e.test], r)

(* C18: the thread leaves its loop only in success with the pattern list   *)
(* exhausted, in failure after a dispatch call returned 2 or an error, or  *)
(* cancelled; it sleeps only after a dispatch call returned 0 with a       *)
(* pattern still active; and, the log source handing out again and again a *)
(* record that satisfies the active pattern as long as there is one, every *)
(* thread that executes ends, in one of these three ways.                  *)
C18_LoopTerminates ==
    /\ [][LoopSteps]_vars
    /\ \A n \in Names :
          (n \in DOMAIN le /\ le[n].tp \in Live)
              ~> (n \in DOMAIN le
                    /\ (le[n].tp \in Terminated \/ Starved(le[n])))

\* a run over two patterns, the second with a back-reference, has ended in
\* success after a sleep
C18_Witness ==
    \E n \in DOMAIN le :
        /\ le[n].tp = "done"
        /\ Len(le[n].log) = 2
        /\ le[n].log[2].pat.vxid = LE_LAST
        /\ ~le[n].cancel

----------------------------------------------------------------------------
(* Properties of the regex (checked under SpecRegex) *)

\* the classification of record r by a dispatch call of engine e
ClassOf(e, r) == Last(logexp_dispatch(e, << <<r>> >>).e.log).cls

\* engine e, its active pattern without its regex
NoRegex(e) == [e EXCEPT !.tests[e.test].vre = NULL]

\* the vxid matcher of pattern t accepts record r
VxidOk(e, t, r) ==
    \/ t.vxid = LE_ANY
    \/ t.vxid = LE_LAST /\ e.vxid_last = r.vxid
    \/ t.vxid = r.vxid

(* C19: whenever the thread of an engine is about to dispatch, each record *)
(* the log source can hand out is classified as it would be without the    *)
(* regex of the active pattern, unless the tag matcher of the pattern is   *)
(* an exact tag, the tag of the record: then a record with the right vxid  *)
(* whose payload the regex does not match is SKIP if the skip budget       *)
(* allows and FAIL if not.                                                 *)
C19_RegexOnlyWithExactTag ==
    \A n \in DOMAIN le :
        (le[n].tp = "loop" /\ le[n].test # NULL) =>
            \A r \in RegexRecs :
                LET e == le[n]
                    t == e.tests[e.test]
                    nomatch == VRE_exec(t.vre, r.data) = VRE_ERROR_NOMATCH
                IN /\ t.tag \in {LE_ANY, LE_LAST} =>
                        ClassOf(e, r) = ClassOf(NoRegex(e), r)
                   /\ (t.tag >= 0 /\ t.tag # r.tag) =>
                        ClassOf(e, r) = ClassOf(NoRegex(e), r)
                   /\ (t.tag >= 0 /\ t.tag = r.tag /\ t.vre # NULL
                         /\ VxidOk(e, t, r) /\ nomatch) =>
                        ClassOf(e, r) =
                            IF t.skip_max = LE_ANY \/ e.skip_cnt < t.skip_max
                            THEN "SKIP" ELSE "FAIL"
                   /\ (t.tag >= 0 /\ t.tag = r.tag /\ t.vre # NULL
                         /\ VxidOk(e, t, r) /\ ~nomatch) =>
                        ClassOf(e, r) = "MATCH"

\* a record whose payload the regex does not match was a MATCH for a
\* pattern with the tag matcher ANY, and then a SKIP for a pattern with
\* its own tag
C19_Witness ==
    \E n \in DOMAIN le :
        /\ Len(le[n].log) = 2
        /\ le[n].log[1].cls = "MATCH"
        /\ le[n].log[1].vxid = 1
        /\ le[n].log[1].pat.tag = LE_ANY
        /\ le[n].log[1].pat.vre # NULL
        /\ le[n].log[2].cls = "SKIP"
        /\ le[n].log[2].vxid = 1
        /\ le[n].log[2].pat.tag = le[n].log[2].tag

----------------------------------------------------------------------------
(* Properties of a run without patterns (checked under SpecMatch) *)

\* the thread of an engine without patterns: it has classified nothing and
\* called no dispatch, and is before its loop or past it
NothingToMatch(e) ==
    /\ e.tp \in {"begin", "loop", "done"}
    /\ e.test = NULL
    /\ e.log = <<>>
    /\ e.i = 0

(* C20: the thread of an engine started with an empty pattern list never   *)
(* has an active pattern, calls no dispatch, classifies no record and      *)
(* does not sleep: it ends in success; the wait that joins it raises no    *)
(* error and leaves the engine not running.                                *)
C20_EmptyListSucceeds ==
    [][\A n \in DOMAIN le :
          /\ (le[n].tests = <<>> /\ le[n].tp # "none") => NothingToMatch(le[n])
          /\ (le[n].tests = <<>> /\ le[n].tp \in Live /\ le'[n] # le[n]) =>
                /\ NothingToMatch(le'[n])
                /\ le'[n].tp # le[n].tp
          /\ (le[n].tests = <<>> /\ Joins(n)) =>
                /\ le[n].tp = "done"
                /\ cpc' # "fatal"
                /\ le'[n].tp = "none" => ~le'[n].run]_vars

\* an engine without patterns has been started and waited on: the cursor
\* is as logexp_start() left it
C20_Witness ==
    \E n \in DOMAIN le :
        /\ le[n].tests = <<>>
        /\ le[n].tp = "none"
        /\ ~le[n].run
        /\ le[n].vxid_last = -1
        /\ cpc = "idle"

----------------------------------------------------------------------------
(* Properties of the assertions (C21 checked under SpecMatch, C22 under    *)
(* Spec)                                                                   *)

(* C21: the assertion of line 257 never fails: no dispatch call has found  *)
(* a record to examine without an active pattern, and while the thread is  *)
(* in its loop with the pattern list not exhausted, or sleeps, the cursor  *)
(* is on a pattern of the list.                                            *)
C21_ActivePatternAsserted ==
    \A n \in DOMAIN le :
        /\ le[n].i # 3
        /\ le[n].tp # "abort"
        /\ le[n].tp = "sleep" => le[n].test # NULL
        /\ (le[n].tp \in {"loop", "sleep"} /\ le[n].test # NULL) =>
              le[n].test \in 1..Len(le[n].tests)

\* after a match and two skips, spread over more than one dispatch call,
\* the thread sleeps with the second pattern active
C21_Witness ==
    \E n \in DOMAIN le :
        /\ le[n].tp = "sleep"
        /\ le[n].test = 2
        /\ Len(le[n].log) = 3
        /\ le[n].log[1].cls = "MATCH"
        /\ le[n].log[2].cls = "SKIP"
        /\ le[n].log[3].cls = "SKIP"

(* C22: while the controlling thread is between two arguments, and all     *)
(* through a teardown, the query handle of every engine is open exactly    *)
(* when the engine is marked running; no assertion of logexp_start(),      *)
(* logexp_thread(), logexp_delete() or of the implicit wait ever fails: a  *)
(* thread at its beginning finds the engine running, its handle open and   *)
(* no active pattern, and logexp_delete() is reached with the engine not   *)
(* running and its handle closed.                                          *)
C22_HandleOpenIffRunning ==
    /\ cpc \in {"idle", "join"} \cup TeardownPcs =>
          \A n \in DOMAIN le : le[n].vslq <=> le[n].run
    /\ cerr # "assert"
    /\ \A n \in DOMAIN le :
          /\ le[n].tp # "abort"
          /\ le[n].tp = "begin" =>
                le[n].run /\ le[n].vslq /\ le[n].test = NULL
    /\ cpc = "reset_delete" => ~le[carg].run /\ ~le[carg].vslq

\* the second run of an engine has ended in failure and has not been
\* waited on: the engine is still marked running, its handle still open
C22_Witness ==
    \E n \in DOMAIN le :
        /\ le[n].iw
        /\ le[n].tp = "failed"
        /\ le[n].run
        /\ le[n].vslq
        /\ cpc = "idle"

====
